---- MODULE Spec2Model ----
(***************************************************************************)
(* REINFORCE function optimisation with a team network (REINFORCE.ipynb).  *)
(*                                                                         *)
(* Two specifications are given over one set of variables:                 *)
(*   Spec / FairSpec : the team-network cell (parameter initialisation,    *)
(*                     the "for t in range(T-1)" loop and the final print) *)
(*   SpecJ           : the objective functions of the utilities cell,      *)
(*                     applied to bit vectors drawn from a bounded set.    *)
(*                                                                         *)
(* Representation.                                                         *)
(*  - A bit vector u of the notebook (0-based, u[0..n-1]) is the tuple     *)
(*    <<u[0], ..., u[n-1]>>; Python's u[i] is At(u, i).                    *)
(*  - A length-T history array is a function on 0..T-1.                    *)
(*  - gamma = 0.9 is the rational GammaNum/GammaDen.  r_bar and rho are    *)
(*    kept as exact fixed-point numerators over Scale(T) = GammaDen^(T-1), *)
(*    so that T-1 baseline updates stay exact; float rounding of the       *)
(*    notebook's doubles is not modelled.                                  *)
(*  - w_0, p, e_0 and delta_w0 hold reals that pass through the logistic   *)
(*    function.  For finite weights sigmoid(w) lies strictly between 0 and *)
(*    1, so np.random.binomial can return every bit vector of length n:    *)
(*    the sample is a nondeterministic choice over BitVectors(n).  The     *)
(*    values of these four arrays are not kept; the slots the loop reads   *)
(*    and writes in them are (variables touched and written).              *)
(***************************************************************************)
EXTENDS Integers, Sequences, FiniteSets

(* ------------------------------ bounds --------------------------------- *)
\* largest number of units n explored for the loop
MaxN == 2
\* largest number of timesteps T explored for the loop
MaxT == 4
\* longest bit vector handed to the objective functions
MaxLen == 8

(* ------------------------- program constants --------------------------- *)
\* gamma = 0.9
GammaNum == 9
GammaDen == 10

RECURSIVE Pow(_, _)
Pow(b, e) == IF e = 0 THEN 1 ELSE b * Pow(b, e - 1)

\* denominator of the fixed-point representation of r_bar and rho
Scale(TT) == Pow(GammaDen, TT - 1)

BitVectors(len) == [1..len -> {0, 1}]

\* Python's u[i] (0-based subscript)
At(u, i) == u[i + 1]

\* np.sum(u) / sum(u)
RECURSIVE SumTo(_, _)
SumTo(u, k) == IF k = 0 THEN 0 ELSE SumTo(u, k - 1) + u[k]
sum(u) == SumTo(u, Len(u))

abs(x) == IF x < 0 THEN -x ELSE x

(* ------------------- objective functions (utilities cell) -------------- *)
one_max(u) == 10 * sum(u)

\* variant: a landscape symmetric under bit flip
two_max_Symmetric(u) == abs(18 * sum(u) - 9 * Len(u))

two_max(u) == abs(18 * sum(u) - 8 * Len(u))

porcupine(u) ==
    LET n_1 == sum(u)
        n_0 == Len(u) - n_1
    IN  10 * n_1 - 15 * (n_0 % 2)

\* the inner loop "for i in range(lo, hi): J_k = J_k * 2.5 * n * u[i]".
\* 2.5 * n is the integer 5n/2 because n is a multiple of 4.
RECURSIVE PlateausInner(_, _, _, _)
PlateausInner(u, J_k, i, hi) ==
    IF i >= hi THEN J_k
    ELSE PlateausInner(u, ((J_k * 5 * Len(u)) \div 2) * At(u, i), i + 1, hi)

\* J_k as it stands after the outer loop has finished quartile k.  J_k is
\* set to 1 once, before the outer loop, and is carried from one quartile
\* to the next.
RECURSIVE PlateausJk(_, _)
PlateausJk(u, k) ==
    LET n  == Len(u)
        lo == (k * n) \div 4 + 1
        hi == ((k + 1) * n) \div 4
    IN  PlateausInner(u, IF k = 0 THEN 1 ELSE PlateausJk(u, k - 1), lo, hi)

\* the outer loop "for k in range(4): ...; J = J + J_k", from J = 0
RECURSIVE PlateausOuter(_, _)
PlateausOuter(u, k) ==
    IF k < 0 THEN 0 ELSE PlateausOuter(u, k - 1) + PlateausJk(u, k)

plateaus(u) == PlateausOuter(u, 3)

\* the assert of plateaus
PlateausAssert(u) == Len(u) % 4 = 0


(* ------------------------ team-network cell ---------------------------- *)
VARIABLES
    n,        \* number of units
    T,        \* number of timesteps (length of every history array)
    t,        \* the loop variable; -1 while Python's t is still unbound
    pc,       \* "Running", "Converged" (left by break), "BudgetExhausted"
              \* (range(T-1) ran out), "IndexError"; "Utilities", "Returned" in SpecJ
    y,        \* y[:, i], the sample history
    r,        \* r[i]
    r_bar,    \* r_bar[i] * Scale(T)
    rho,      \* rho[i] * Scale(T)
    touched,  \* <<array, index>> of every subscript evaluated so far
    written,  \* <<array, index>> of every slot assigned so far
    evals,    \* number of calls of the objective function made by the loop
    printed,  \* what the final print has shown
    u,        \* SpecJ: the argument of the last objective call
    J         \* SpecJ: the outcome of the last objective call

vars == <<n, T, t, pc, y, r, r_bar, rho, touched, written, evals, printed, u, J>>

NoReport == [done |-> FALSE, vector |-> <<>>, count |-> -1]
NoCall == [fn |-> "none", raised |-> FALSE, val |-> 0]

zeros(len) == [i \in 1..len |-> 0]
\* one_max_max = np.ones(n); max = one_max_max
max(len) == [i \in 1..len |-> 1]

\* variant: "for t in range(T)"
LoopRange_FullLength(TT) == 0..(TT - 1)

\* the indices produced by "for t in range(T-1)"
LoopRange(TT) == 0..(TT - 2)

\* variant: np.any in place of np.all
IsMax_Any(v, mx) == \E i \in DOMAIN v : v[i] = mx[i]

\* np.all(y[:,t] == max)
IsMax(v, mx) == v = mx

\* variant: gamma and (1 - gamma) exchanged
BaselineUpdate_Swapped(rb_t, r_t, TT) ==
    ((GammaDen - GammaNum) * rb_t + GammaNum * Scale(TT) * r_t) \div GammaDen

\* r_bar[t+1] = gamma * r_bar[t] + (1 - gamma) * r[t], on numerators over
\* Scale(T); the division is exact for the T-1 updates a run can make
BaselineUpdate(rb_t, r_t, TT) ==
    (GammaNum * rb_t + (GammaDen - GammaNum) * Scale(TT) * r_t) \div GammaDen

\* rho[t+1] = r[t+1] - r_bar[t], on numerators over Scale(T)
RhoUpdate(r_next, rb_t, TT) == Scale(TT) * r_next - rb_t

\* variant: the slot after the one the loop stopped on is shown
Report_NextSlot(yy, tt) == [done |-> TRUE, vector |-> yy[tt + 1], count |-> tt]

\* variant: the count shown is t + 1
Report_CountPlusOne(yy, tt) == [done |-> TRUE, vector |-> yy[tt], count |-> tt + 1]

\* print("Maximum is ", y[:, t], "achieved in ", t, "iterations")
Report(yy, tt) == [done |-> TRUE, vector |-> yy[tt], count |-> tt]

\* subscripts of the parameter initialisation
InitReads == {<<"r", 0>>}
InitWrites == {<<"w_0", 0>>, <<"r_bar", 0>>, <<"rho", 0>>}

\* subscripts of one pass through the loop body, by the statement they are in
ReadsFirst(tt) == {<<"w_0", tt>>, <<"p", tt>>, <<"y", tt>>}
WritesFirst(tt) == {<<"p", tt>>, <<"y", tt>>, <<"e_0", tt>>, <<"r", tt>>}
ReadsBaseline(tt) == {<<"r_bar", tt>>, <<"r", tt>>}
WritesBaseline(tt) == {<<"r_bar", tt + 1>>}
ReadsRest(tt) == {<<"r", tt + 1>>, <<"r_bar", tt>>, <<"r", tt>>, <<"e_0", tt>>,
                  <<"w_0", tt>>, <<"delta_w0", tt>>, <<"y", tt>>}
WritesRest(tt) == {<<"rho", tt + 1>>, <<"delta_w0", tt>>, <<"w_0", tt + 1>>}

Init ==
    /\ n \in 1..MaxN
    /\ T \in 2..MaxT
    /\ t = -1
    /\ pc = "Running"
    /\ y = [i \in 0..(T - 1) |-> zeros(n)]
    /\ r = [i \in 0..(T - 1) |-> 0]
    /\ r_bar = [i \in 0..(T - 1) |-> 0]
    /\ rho = [i \in 0..(T - 1) |-> 0]
    /\ touched = InitReads \cup InitWrites
    /\ written = InitWrites
    /\ evals = 0
    /\ printed = NoReport
    /\ u = <<>>
    /\ J = NoCall

\* One pass through the loop body with the Bernoulli sample s.
Iterate(s) ==
    /\ pc = "Running"
    /\ (t + 1) \in LoopRange(T)
    /\ LET tt == t + 1
           y1 == [y EXCEPT ![tt] = s]
           r1 == [r EXCEPT ![tt] = one_max(y1[tt])]
       IN  /\ t' = tt
           /\ y' = y1
           /\ r' = r1
           /\ evals' = evals + 1
           /\ IF (tt + 1) \in DOMAIN r_bar
              THEN /\ r_bar' = [r_bar EXCEPT
                                  ![tt + 1] = BaselineUpdate(r_bar[tt], r1[tt], T)]
                   /\ rho' = [rho EXCEPT
                                  ![tt + 1] = RhoUpdate(r1[tt + 1], r_bar[tt], T)]
                   /\ touched' = touched \cup ReadsFirst(tt) \cup WritesFirst(tt)
                                    \cup ReadsBaseline(tt) \cup WritesBaseline(tt)
                                    \cup ReadsRest(tt) \cup WritesRest(tt)
                   /\ written' = written \cup WritesFirst(tt)
                                    \cup WritesBaseline(tt) \cup WritesRest(tt)
                   /\ pc' = IF IsMax(y1[tt], max(n)) THEN "Converged" ELSE "Running"
              ELSE \* r_bar[t+1] is out of bounds: numpy raises IndexError
                   /\ touched' = touched \cup ReadsFirst(tt) \cup WritesFirst(tt)
                                    \cup ReadsBaseline(tt) \cup WritesBaseline(tt)
                   /\ written' = written \cup WritesFirst(tt)
                   /\ pc' = "IndexError"
                   /\ UNCHANGED <<r_bar, rho>>
    /\ UNCHANGED <<n, T, printed, u, J>>

Sample == \E s \in BitVectors(n) : Iterate(s)

\* range(T-1) has no further index: the for statement ends
LoopExit ==
    /\ pc = "Running"
    /\ (t + 1) \notin LoopRange(T)
    /\ pc' = "BudgetExhausted"
    /\ UNCHANGED <<n, T, t, y, r, r_bar, rho, touched, written, evals, printed, u, J>>

\* the print statement after the loop
PrintResult ==
    /\ pc \in {"Converged", "BudgetExhausted"}
    /\ ~printed.done
    /\ printed' = Report(y, t)
    /\ touched' = touched \cup {<<"y", t>>}
    /\ UNCHANGED <<n, T, t, pc, y, r, r_bar, rho, written, evals, u, J>>

Next == Sample \/ LoopExit \/ PrintResult

Spec == Init /\ [][Next]_vars

\* the cell is straight-line sequential code: whatever statement is next runs
FairSpec == Spec /\ WF_vars(Next)

(* --------------------- objective functions, applied -------------------- *)
Inputs == UNION {BitVectors(len) : len \in 1..MaxLen}

InitJ ==
    /\ n = 0 /\ T = 0 /\ t = -1
    /\ pc = "Utilities"
    /\ y = <<>> /\ r = <<>> /\ r_bar = <<>> /\ rho = <<>>
    /\ touched = {} /\ written = {}
    /\ evals = 0
    /\ printed = NoReport
    /\ u = <<>>
    /\ J = NoCall

Returned(fn, val) == [fn |-> fn, raised |-> FALSE, val |-> val]
Raised(fn) == [fn |-> fn, raised |-> TRUE, val |-> 0]

\* each run of SpecJ is one call: "Utilities" before it, "Returned" after it
LoopVarsJ == <<n, T, t, y, r, r_bar, rho, touched, written, evals, printed>>

Call_one_max ==
    /\ pc = "Utilities"
    /\ pc' = "Returned"
    /\ \E v \in Inputs : u' = v /\ J' = Returned("one_max", one_max(v))
    /\ UNCHANGED LoopVarsJ

Call_two_max ==
    /\ pc = "Utilities"
    /\ pc' = "Returned"
    /\ \E v \in Inputs : u' = v /\ J' = Returned("two_max", two_max(v))
    /\ UNCHANGED LoopVarsJ

Call_porcupine ==
    /\ pc = "Utilities"
    /\ pc' = "Returned"
    /\ \E v \in Inputs : u' = v /\ J' = Returned("porcupine", porcupine(v))
    /\ UNCHANGED LoopVarsJ

Call_plateaus ==
    /\ pc = "Utilities"
    /\ pc' = "Returned"
    /\ \E v \in Inputs :
        /\ u' = v
        /\ J' = IF PlateausAssert(v) THEN Returned("plateaus", plateaus(v))
                ELSE Raised("plateaus")
    /\ UNCHANGED LoopVarsJ

NextJ == Call_one_max \/ Call_two_max \/ Call_porcupine \/ Call_plateaus

SpecJ == InitJ /\ [][NextJ]_vars


(* ============================ properties =============================== *)
Terminal == pc \in {"Converged", "BudgetExhausted"}

(* ------------------------------- C1 ------------------------------------ *)
C1_Outcome ==
    /\ pc # "IndexError"
    /\ evals = t + 1
    /\ evals <= T - 1
    /\ Terminal =>
          ((pc = "BudgetExhausted") <=> (\A i \in 0..t : y[i] # max(n)))
    /\ pc = "Converged" =>
          /\ y[t] = max(n)
          /\ \A i \in 0..(t - 1) : y[i] # max(n)
    /\ pc = "Running" => \A i \in 0..t : y[i] # max(n)

C1_NoIterationAfterConverged ==
    [][pc = "Converged" => (pc' = pc /\ t' = t /\ evals' = evals /\ y' = y)]_vars

\* C1: for every T > 1 and every sequence of samples the loop ends after at
\* most T-1 iterations; it ends BudgetExhausted exactly when no executed
\* iteration sampled the known optimum, and otherwise Converged at the first
\* iteration whose sample is the optimum, after which no iteration runs.
C1_Termination ==
    /\ []C1_Outcome
    /\ C1_NoIterationAfterConverged
    /\ <>Terminal

\* a run that converges early, after an iteration that did not match
C1_Witness == pc = "Converged" /\ 0 < t /\ t < T - 2 /\ evals = t + 1

(* ------------------------------- C2 ------------------------------------ *)
\* C2: what the final print shows tells the two outcomes apart: after budget
\* exhaustion the vector shown differs from the known optimum, after
\* convergence it is the known optimum, so no output of an exhausted run is
\* also an output of a converged run.
C2_ReportDistinguishes ==
    printed.done =>
        /\ (pc = "BudgetExhausted") <=> (printed.vector # max(n))
        /\ (pc = "Converged") <=> (printed.vector = max(n))

\* budget exhaustion has been reported, with the last slot of the loop
C2_Witness ==
    /\ printed.done
    /\ pc = "BudgetExhausted"
    /\ printed.count = T - 2
    /\ printed.vector # max(n)

(* ------------------------------- C3 ------------------------------------ *)
\* C3: two_max(u) returns 18 * |18 * count_of_ones(u) - 8 * n| for every
\* bit vector u of length n.
C3_TwoMaxFormula ==
    (pc = "Returned" /\ J.fn = "two_max") =>
        J.val = 18 * abs(18 * sum(u) - 8 * Len(u))

(* ------------------------------- C4 ------------------------------------ *)
OnesExcept(len, i) == [j \in 1..len |-> IF j = i + 1 THEN 0 ELSE 1]

\* C4: for n divisible by 4 and u all ones except one zero at index i,
\* plateaus(u) is plateaus(all-ones) less what the quartile holding i adds
\* for all-ones, and every quartile product of all-ones is nonzero.
C4_SingleZeroDropsOneQuartile ==
    \A i \in 0..(Len(u) - 1) :
        (/\ pc = "Returned"
         /\ J.fn = "plateaus"
         /\ ~J.raised
         /\ u = OnesExcept(Len(u), i)) =>
            /\ \A k \in 0..3 : PlateausJk(max(Len(u)), k) # 0
            /\ J.val = plateaus(max(Len(u)))
                         - PlateausJk(max(Len(u)), i \div (Len(u) \div 4))

(* ------------------------------- C5 ------------------------------------ *)
\* C5 as stated: for even n, two_max of all-ones and of all-zeros are both
\* 18 * 8n and no bit vector of length n scores higher.
C5_EqualOptima ==
    (pc = "Returned" /\ J.fn = "two_max" /\ Len(u) % 2 = 0) =>
        /\ u \in {max(Len(u)), zeros(Len(u))} => J.val = 18 * 8 * Len(u)
        /\ J.val <= 18 * 8 * Len(u)

\* C5 as amended: for even n, two_max(all-ones) = 10n, two_max(all-zeros) =
\* 8n, and all-ones is the only bit vector of length n that scores 10n or
\* more.
C5_OnesIsTheOptimum ==
    (pc = "Returned" /\ J.fn = "two_max" /\ Len(u) % 2 = 0) =>
        /\ u = max(Len(u)) => J.val = 10 * Len(u)
        /\ u = zeros(Len(u)) => J.val = 8 * Len(u)
        /\ J.val <= 10 * Len(u)
        /\ J.val = 10 * Len(u) => u = max(Len(u))

\* two_max has been applied to the all-zeros vector of an even length
C5_Witness ==
    /\ pc = "Returned"
    /\ J.fn = "two_max"
    /\ Len(u) = 4
    /\ u = zeros(4)
    /\ J.val = 32

(* ------------------------------- C7 ------------------------------------ *)
\* C7: when the loop stops on convergence the count shown is the index of
\* the matching sample and is one less than the number of objective
\* evaluations made.
C7_CountIsEvalsMinusOne ==
    (pc = "Converged" /\ printed.done) =>
        /\ printed.count + 1 = evals
        /\ printed.count \in 0..(T - 2)
        /\ y[printed.count] = max(n)

\* convergence on the very first sample, reported as 0 iterations
C7_Witness ==
    /\ pc = "Converged"
    /\ printed.done
    /\ printed.count = 0
    /\ evals = 1

(* ------------------------------- C8 ------------------------------------ *)
\* C8: after the run, for every executed iteration index t+1, rho[t+1] is
\* the reward of the sample drawn at iteration t+1 less r_bar[t].
C8_RhoIsRewardMinusBaseline ==
    Terminal =>
        \A i \in 1..t :
            /\ r[i] = one_max(y[i])
            /\ rho[i] = Scale(T) * r[i] - r_bar[i - 1]

(* ------------------------------- C9 ------------------------------------ *)
\* C9: r_bar[0] = 0 and, for every executed iteration i, r_bar[i+1] =
\* gamma * r_bar[i] + (1 - gamma) * r[i] with r[i] the one-max value of the
\* sample of iteration i; every r_bar lies in 0..10n.
C9_BaselineRecurrence ==
    pc \in {"Running", "Converged", "BudgetExhausted"} =>
        /\ r_bar[0] = 0
        /\ \A i \in 0..t :
              /\ r[i] = 10 * sum(y[i])
              /\ GammaDen * r_bar[i + 1] =
                    GammaNum * r_bar[i] + (GammaDen - GammaNum) * Scale(T) * r[i]
        /\ \A i \in 0..(T - 1) :
              0 <= r_bar[i] /\ r_bar[i] <= 10 * n * Scale(T)

\* three baseline updates have been made, the first from a nonzero reward
C9_Witness ==
    /\ Terminal
    /\ t >= 2
    /\ r[0] > 0
    /\ r_bar[1] > 0
    /\ r_bar[3] > 0
    /\ r_bar[3] # r_bar[2]

(* ------------------------------- C10 ----------------------------------- *)
\* C10: every subscript the cell evaluates lies in 0..T-1, the loop
\* variable never exceeds T-2 and is T-2 on exhaustion, and the slot of y
\* shown by the final print was assigned by an executed iteration.
C10_IndicesInBounds ==
    pc \notin {"Utilities", "Returned"} =>
        /\ pc # "IndexError"
        /\ \A s \in touched : s[2] \in 0..(T - 1)
        /\ t <= T - 2
        /\ pc = "BudgetExhausted" => t = T - 2
        /\ Terminal => <<"y", t>> \in written
        /\ printed.done => <<"y", printed.count>> \in written

\* the last iteration has written slot T-1 of w_0 and the print has run
C10_Witness ==
    /\ pc = "BudgetExhausted"
    /\ printed.done
    /\ T >= 3
    /\ <<"w_0", T - 1>> \in written
    /\ <<"r", T - 1>> \in touched
    /\ printed.count = T - 2

====
